---- MODULE Spec2Model ----
(***************************************************************************)
(* Model of app/etl.py: the hourly Tautulli -> PostgreSQL history load.    *)
(* One driver loop (__main__) calls fetch_history(), which extracts one    *)
(* batch over HTTP, transforms it with pandas and loads it row by row with *)
(* INSERT ... ON CONFLICT (reference_id) DO NOTHING.                       *)
(***************************************************************************)
EXTENDS Integers, Sequences, FiniteSets, TLC

(***************************************************************************)
(* Bounds of the model.                                                    *)
(***************************************************************************)
\* Longest history list one response carries in the model.
MaxBatch == 3

(***************************************************************************)
(* Values.  Every cell value has the same shape so that values of          *)
(* different Python types can sit in one column:                           *)
(*   t = "int"  n is the integer                                           *)
(*   t = "str"  s is the string, one character per element                 *)
(*   t = "na"   None / NaN / NaT (pandas' missing value)                   *)
(*   t = "ts"   n is the instant in seconds, c its calendar fields         *)
(***************************************************************************)
IntV(n) == [t |-> "int", n |-> n, s |-> <<>>, c |-> <<>>]
StrV(s) == [t |-> "str", n |-> 0, s |-> s, c |-> <<>>]
NA == [t |-> "na", n |-> 0, s |-> <<>>, c |-> <<>>]

isna(v) == v.t = "na"

\* The eight columns the job keeps (line 54).
cols == {"reference_id", "date", "friendly_name", "full_title",
         "media_type", "duration", "ip_address", "platform"}

(***************************************************************************)
(* pd.to_datetime(seconds, unit='s'): the naive UTC calendar timestamp of  *)
(* an epoch second count (proleptic Gregorian calendar).                   *)
(***************************************************************************)
SecondsPerDay == 86400

\* Days since 1970-01-01 to <<year, month, day>>, by 400-year eras counted
\* from 0000-03-01 (so that the leap day ends a year).
CivilFromDays(days) ==
    LET z   == days + 719468
        era == z \div 146097
        doe == z % 146097                                  \* day of era
        yoe == (doe - doe \div 1460 + doe \div 36524 - doe \div 146096) \div 365
        doy == doe - (365 * yoe + yoe \div 4 - yoe \div 100) \* from 1 March
        mp  == (5 * doy + 2) \div 153                       \* months from March
        d   == doy - (153 * mp + 2) \div 5 + 1
        m   == IF mp < 10 THEN mp + 3 ELSE mp - 9
        y   == yoe + era * 400 + (IF m <= 2 THEN 1 ELSE 0)
    IN  <<y, m, d>>

Timestamp(secs) ==
    LET ymd == CivilFromDays(secs \div SecondsPerDay)
        rem == secs % SecondsPerDay
    IN  [t |-> "ts", n |-> secs, s |-> <<>>,
         c |-> ymd \o <<rem \div 3600, (rem % 3600) \div 60, rem % 60>>]

\* Mutation: the count is read as milliseconds (unit='ms').
to_datetime_ms(v) == IF isna(v) THEN NA ELSE Timestamp(v.n \div 1000)

to_datetime(v) == IF isna(v) THEN NA ELSE Timestamp(v.n)

(***************************************************************************)
(* pandas: DataFrame construction, column selection, dropna, astype(int).  *)
(* A frame is its set of column labels and its rows in order; a row is a   *)
(* function from the frame's columns to values.                            *)
(***************************************************************************)
\* pd.DataFrame(list of dicts): the columns are the union of the keys, a key
\* a record lacks reads NaN in that row (line 49).
DataFrame(records) ==
    LET columns == UNION {DOMAIN records[i] : i \in 1..Len(records)}
    IN  [columns |-> columns,
         rows |-> [i \in 1..Len(records) |->
                     [k \in columns |-> IF k \in DOMAIN records[i]
                                        THEN records[i][k] ELSE NA]]]

\* df[[c for c in cols if c in df.columns]] (line 56).
SelectCols(df) ==
    LET keep == {k \in cols : k \in df.columns}
    IN  [columns |-> keep,
         rows |-> [i \in 1..Len(df.rows) |-> [k \in keep |-> df.rows[i][k]]]]

\* df['watched_at'] = pd.to_datetime(df['date'], unit='s');
\* df = df.drop(columns=['date'])  (lines 59-60).  Needs the 'date' column.
ConvertDate(df) ==
    LET newcols == (df.columns \cup {"watched_at"}) \ {"date"}
    IN  [columns |-> newcols,
         rows |-> [i \in 1..Len(df.rows) |->
                     [k \in newcols |-> IF k = "watched_at"
                                        THEN to_datetime(df.rows[i]["date"])
                                        ELSE df.rows[i][k]]]]

\* df.dropna(subset=['reference_id']) (line 84).  Needs the column.
HasKey(row) == ~isna(row["reference_id"])

dropna(df) == [columns |-> df.columns, rows |-> SelectSeq(df.rows, HasKey)]

\* int(x) of one cell, as astype(int) applies it (line 85).
Digits == {"0", "1", "2", "3", "4", "5", "6", "7", "8", "9"}

DigitValue(ch) ==
    CASE ch = "0" -> 0 [] ch = "1" -> 1 [] ch = "2" -> 2 [] ch = "3" -> 3
      [] ch = "4" -> 4 [] ch = "5" -> 5 [] ch = "6" -> 6 [] ch = "7" -> 7
      [] ch = "8" -> 8 [] ch = "9" -> 9

RECURSIVE ParseDigits(_)
ParseDigits(s) == IF s = <<>> THEN 0
                  ELSE 10 * ParseDigits(SubSeq(s, 1, Len(s) - 1))
                       + DigitValue(s[Len(s)])

\* Whether int(v) succeeds: an integer, or a non-empty string of digits.
IntCoercible(v) ==
    \/ v.t = "int"
    \/ v.t = "str" /\ Len(v.s) > 0 /\ \A i \in 1..Len(v.s) : v.s[i] \in Digits

ToInt(v) == IF v.t = "int" THEN v ELSE IntV(ParseDigits(v.s))

\* astype(int) raises ValueError as soon as one cell of the column is not
\* convertible; the whole column converts or nothing does.
AstypeOk(df) == \A i \in 1..Len(df.rows) : IntCoercible(df.rows[i]["reference_id"])

astype_int(df) ==
    [columns |-> df.columns,
     rows |-> [i \in 1..Len(df.rows) |->
                 [k \in df.columns |-> IF k = "reference_id"
                                       THEN ToInt(df.rows[i][k])
                                       ELSE df.rows[i][k]]]]

(***************************************************************************)
(* The INSERT statement (lines 91-106).                                    *)
(***************************************************************************)
\* The row[...] lookups that build the bind parameters (lines 98-105).
ParamCols == {"reference_id", "watched_at", "friendly_name", "full_title",
              "media_type", "duration", "ip_address", "platform"}

\* Mutation: :name and :title are bound to each other's column.
StoredRowMisbound(row) ==
    [k \in ParamCols |-> IF k = "friendly_name" THEN row["full_title"]
                         ELSE IF k = "full_title" THEN row["friendly_name"]
                         ELSE row[k]]

\* One stored row: the eight table columns (lines 69-78, 92-93).
StoredRow(row) == [k \in ParamCols |-> row[k]]

\* Mutation: only a row equal in every column conflicts.
ConflictsOnWholeRow(rows, r) == {x \in rows : x = r}

\* Rows of a row set whose primary key equals the key of r.
Conflicts(rows, r) == {x \in rows : x["reference_id"] = r["reference_id"]}

\* Mutation: the conflicting row is replaced and counted (DO UPDATE).
InsertOnConflictDoUpdate(rows, r) ==
    <<(rows \ Conflicts(rows, r)) \cup {r}, 1, "none">>

\* Mutation: no ON CONFLICT clause, a duplicate key is a constraint error.
InsertWithoutOnConflict(rows, r) ==
    IF Conflicts(rows, r) # {} THEN <<rows, 0, "IntegrityError">>
    ELSE <<rows \cup {r}, 1, "none">>

\* INSERT ... ON CONFLICT (reference_id) DO NOTHING against the rows the
\* statement sees: <<rows afterwards, result.rowcount, error raised>>.
InsertOnConflictDoNothing(rows, r) ==
    IF Conflicts(rows, r) # {} THEN <<rows, 0, "none">>
    ELSE <<rows \cup {r}, 1, "none">>

\* Mutation: every executed INSERT is counted.
CountedAlways(n, rowcount) == n + 1

\* if result.rowcount > 0: count += 1 (lines 107-108).
Counted(n, rowcount) == IF rowcount > 0 THEN n + 1 ELSE n

(***************************************************************************)
(* The records a response may carry.                                       *)
(***************************************************************************)
Record(id, name, date) ==
    [reference_id |-> id, date |-> IntV(date), friendly_name |-> StrV(name),
     full_title |-> StrV(<<"T">>), media_type |-> StrV(<<"m">>),
     duration |-> IntV(60), ip_address |-> StrV(<<"i">>),
     platform |-> StrV(<<"p">>), user |-> StrV(<<"u">>)]

Without(r, k) == [f \in DOMAIN r \ {k} |-> r[f]]

RawRecords ==
    { Record(IntV(1), <<"a">>, 1700000000),
      Record(IntV(1), <<"b">>, 0),                       \* same key, other values
      Record(IntV(2), <<"a">>, 951782400),
      Without(Record(IntV(3), <<"a">>, 86399), "platform"),
      Without(Record(NA, <<"a">>, 0), "date"),           \* "reference_id": null
      Without(Record(NA, <<"a">>, 0), "reference_id"),   \* no such key
      Record(StrV(<<"a", "b", "c">>), <<"a">>, 0),       \* "reference_id": "abc"
      Record(StrV(<<"2">>), <<"a">>, 951782400) }      \* "reference_id": "2"

RECURSIVE SeqsUpTo(_, _)
SeqsUpTo(S, n) ==
    IF n = 0 THEN {<<>>}
    ELSE LET shorter == SeqsUpTo(S, n - 1)
         IN  shorter \cup {Append(q, x) : q \in {p \in shorter : Len(p) = n - 1}, x \in S}

Batches == SeqsUpTo(RawRecords, MaxBatch)

\* The JSON body of a 2xx response: {response: {result, data: {data: [...]}}}.
Body(batch) == [response |-> [result |-> "success", data |-> [data |-> batch]]]

\* Parseable JSON bodies without the response -> data -> data nesting:
\* {}, {"response": {}} and {"response": {"result": "error", "data": {}}}.
MalformedBodies ==
    { <<>>, [response |-> <<>>], [response |-> [result |-> "error", data |-> <<>>]] }

\* data['response']['data']['data'] finds all three keys (line 43).
WellNested(d) ==
    /\ "response" \in DOMAIN d
    /\ "data" \in DOMAIN d["response"]
    /\ "data" \in DOMAIN d["response"]["data"]

\* What makes requests.get / raise_for_status / response.json raise (36-38).
FetchErrors == {"Timeout", "ConnectionError", "HTTPError", "JSONDecodeError"}

(***************************************************************************)
(* State.                                                                  *)
(***************************************************************************)
VARIABLES
    pc,            \* where the process is, driver and fetch_history together
    response,      \* how the request of this cycle ended: "none" before
                   \* it, "ok", or the exception of lines 36-38
    data,          \* the parsed response body (line 38)
    history_data,  \* the list taken out of it (line 43)
    df,            \* the frame (lines 49-85)
    idx,           \* rows of df the insert loop has passed (line 90)
    count,         \* the loop's counter (lines 89, 108)
    conn,          \* whether the with-block holds a connection (line 67)
    txSchema,      \* CREATE TABLE executed in the open transaction
    txRows,        \* rows inserted in the open transaction, not committed
    tableExists,   \* plex_history exists (committed)
    table,         \* the committed rows of plex_history
    log,           \* the messages logged since the cycle began
    exc,           \* the exception that left fetch_history in this cycle
    timeout,       \* the driver's sleep length (line 126), 0 before it is set
    startTable,    \* history: table when the cycle began
    replay,        \* prophecy: the batch just committed, when the next
                   \* response that arrives carries it again; else <<>>
    repeat,        \* history: this cycle's batch is the one last committed
    requests,      \* history: HTTP requests issued in this cycle
    loads,         \* history: engine.connect() calls made in this cycle
    outage,        \* history: an earlier cycle ended in a database error
    loadedUnion    \* history: the normalized rows of the committed loads,
                   \* first arrival of a key first

vars == <<pc, response, data, history_data, df, idx, count, conn, txSchema, txRows,
          tableExists, table, log, exc, timeout, startTable, replay, repeat,
          requests, loads, outage, loadedUnion>>

store == <<tableExists, table>>
session == <<conn, txSchema, txRows>>
frame == <<df, idx, count>>
attempts == <<requests, loads>>
history == <<startTable, replay, repeat, attempts, outage, loadedUnion>>

NoFrame == [columns |-> {}, rows |-> <<>>]

Init ==
    /\ pc = "loop"
    /\ response = "none"
    /\ data = <<>>
    /\ history_data = <<>>
    /\ df = NoFrame
    /\ idx = 0
    /\ count = 0
    /\ conn = FALSE
    /\ txSchema = FALSE
    /\ txRows = {}
    /\ tableExists = FALSE
    /\ table = {}
    /\ log = <<>>
    /\ exc = "none"
    /\ timeout = 0
    /\ startTable = {}
    /\ replay = <<>>
    /\ repeat = FALSE
    /\ requests = 0
    /\ loads = 0
    /\ outage = FALSE
    /\ loadedUnion = {}

\* The row one raw record stands for, taken field by field from the record:
\* its key as an integer, its date as a timestamp, a field it lacks as null.
NormalRow(rec) ==
    [k \in ParamCols |->
        IF k = "reference_id" THEN ToInt(rec[k])
        ELSE IF k = "watched_at"
             THEN (IF "date" \in DOMAIN rec THEN to_datetime(rec["date"]) ELSE NA)
        ELSE IF k \in DOMAIN rec THEN rec[k] ELSE NA]

RECURSIVE FirstArrivals(_, _)
\* rows, and for every key of the batch that rows does not hold the row of
\* the first record of the batch with that key.
FirstArrivals(rows, batch) ==
    IF batch = <<>> THEN rows
    ELSE LET rec == Head(batch)
             new == /\ "reference_id" \in DOMAIN rec
                    /\ IntCoercible(rec["reference_id"])
                    /\ Conflicts(rows, NormalRow(rec)) = {}
         IN  FirstArrivals(IF new THEN rows \cup {NormalRow(rec)} ELSE rows,
                           Tail(batch))

Logged(msg) == \E i \in 1..Len(log) : log[i] = msg

\* An exception leaves fetch_history (there is no handler past line 41).  It
\* leaves the with-block on its way, which closes the connection and rolls
\* the open transaction back.
Raise(e) ==
    /\ pc' = "raised"
    /\ exc' = e
    /\ conn' = FALSE
    /\ txSchema' = FALSE
    /\ txRows' = {}

\* Lines 116-119 and 29: the loop body begins and calls fetch_history.
StartCycle ==
    /\ pc = "loop"
    /\ pc' = "extract"
    /\ log' = <<"Starting ETL job...", "--- Starting ETL Job ---">>
    /\ startTable' = table
    /\ UNCHANGED <<response, data, history_data, frame, session, store, exc, timeout,
                   replay, repeat, attempts, outage, loadedUnion>>

\* Mutation: the handler logs and falls through instead of returning.
ExtractFailsWithoutReturn ==
    /\ pc = "extract"
    /\ \E e \in FetchErrors : response' = e
    /\ requests' = requests + 1
    /\ log' = Append(log, "Error fetching from Tautulli")
    /\ pc' = "parse"
    /\ UNCHANGED <<data, history_data, frame, session, store, exc, timeout,
                   startTable, replay, repeat, loads, outage, loadedUnion>>

\* Lines 35-41, the request fails: logged, fetch_history returns.
ExtractFails ==
    /\ pc = "extract"
    /\ \E e \in FetchErrors : response' = e
    /\ requests' = requests + 1
    /\ log' = Append(log, "Error fetching from Tautulli")
    /\ pc' = "returned"
    /\ UNCHANGED <<data, history_data, frame, session, store, exc, timeout,
                   startTable, replay, repeat, loads, outage, loadedUnion>>

\* Lines 35-38, the request succeeds with some JSON body.
ExtractOk ==
    /\ pc = "extract"
    /\ IF replay # <<>>
       THEN /\ data' = Body(replay)
            /\ repeat' = TRUE
       ELSE /\ \/ \E b \in Batches : data' = Body(b)
               \/ \E m \in MalformedBodies : data' = m
            /\ repeat' = FALSE
    /\ response' = "ok"
    /\ requests' = requests + 1
    /\ replay' = <<>>
    /\ pc' = "parse"
    /\ UNCHANGED <<history_data, frame, session, store, log, exc, timeout,
                   startTable, loads, outage, loadedUnion>>

\* Mutation: no check for an empty list.
ParseWithoutEmptyCheck ==
    /\ pc = "parse"
    /\ IF ~WellNested(data)
       THEN /\ Raise("KeyError")
            /\ UNCHANGED <<history_data, log>>
       ELSE /\ history_data' = data["response"]["data"]["data"]
            /\ pc' = "transform"
            /\ UNCHANGED <<session, exc, log>>
    /\ UNCHANGED <<response, data, frame, store, timeout, history>>

\* Lines 43-46.
Parse ==
    /\ pc = "parse"
    /\ IF ~WellNested(data)
       THEN /\ Raise("KeyError")
            /\ UNCHANGED <<history_data, log>>
       ELSE LET hd == data["response"]["data"]["data"]
            IN  /\ history_data' = hd
                /\ UNCHANGED <<session, exc>>
                /\ IF hd = <<>>
                   THEN /\ log' = Append(log, "No data found.")
                        /\ pc' = "returned"
                   ELSE /\ log' = log
                        /\ pc' = "transform"
    /\ UNCHANGED <<response, data, frame, store, timeout, history>>

\* Lines 49-56: the frame of the batch, cut down to the useful columns.
BuildFrame ==
    /\ pc = "transform"
    /\ df' = SelectCols(DataFrame(history_data))
    /\ log' = Append(log, "Fetched records")
    /\ pc' = "convert"
    /\ UNCHANGED <<response, data, history_data, idx, count, session, store,
                   exc, timeout, history>>

\* Lines 59-65.  df['date'] raises KeyError when no record has a date.
ConvertDates ==
    /\ pc = "convert"
    /\ IF "date" \notin df.columns
       THEN /\ Raise("KeyError")
            /\ UNCHANGED <<df, log>>
       ELSE /\ df' = ConvertDate(df)
            /\ log' = Append(log, "Processing records")
            /\ pc' = "connect"
            /\ UNCHANGED <<session, exc>>
    /\ UNCHANGED <<response, data, history_data, idx, count, store, timeout,
                   history>>

\* Line 67: engine.connect(); the store may be unreachable.
Connect ==
    /\ pc = "connect"
    /\ \E up \in BOOLEAN :
         IF up THEN /\ conn' = TRUE
                    /\ pc' = "create"
                    /\ UNCHANGED <<txSchema, txRows, exc>>
               ELSE Raise("OperationalError")
    /\ loads' = loads + 1
    /\ UNCHANGED <<response, data, history_data, frame, store, log, timeout,
                   startTable, replay, repeat, requests, outage, loadedUnion>>

\* Lines 68-79: CREATE TABLE IF NOT EXISTS, in the open transaction.
CreateTable ==
    /\ pc = "create"
    /\ \E ok \in BOOLEAN :
         IF ok THEN /\ txSchema' = TRUE
                    /\ pc' = "commit_schema"
                    /\ UNCHANGED <<conn, txRows, exc>>
               ELSE Raise("OperationalError")
    /\ UNCHANGED <<response, data, history_data, frame, store, log, timeout, history>>

\* Mutation: the schema statement is left in the open transaction.
CommitSchemaSkipped ==
    /\ pc = "commit_schema"
    /\ pc' = "coerce"
    /\ UNCHANGED <<response, data, history_data, frame, session, store, log,
                   exc, timeout, history>>

\* Line 80: conn.commit() of the schema statement.
CommitSchema ==
    /\ pc = "commit_schema"
    /\ \E ok \in BOOLEAN :
         IF ok THEN /\ tableExists' = (tableExists \/ txSchema)
                    /\ txSchema' = FALSE
                    /\ pc' = "coerce"
                    /\ UNCHANGED <<conn, txRows, exc>>
               ELSE /\ Raise("OperationalError")
                    /\ UNCHANGED tableExists
    /\ UNCHANGED <<response, data, history_data, frame, table, log, timeout, history>>

\* Lines 84-89: dropna raises KeyError without a reference_id column,
\* astype(int) raises ValueError on a key that is no integer.
Coerce ==
    /\ pc = "coerce"
    /\ IF "reference_id" \notin df.columns
       THEN /\ Raise("KeyError")
            /\ UNCHANGED frame
       ELSE IF ~AstypeOk(dropna(df))
       THEN /\ Raise("ValueError")
            /\ UNCHANGED frame
       ELSE /\ df' = astype_int(dropna(df))
            /\ idx' = 0
            /\ count' = 0
            /\ pc' = "insert"
            /\ UNCHANGED <<session, exc>>
    /\ UNCHANGED <<response, data, history_data, store, log, timeout, history>>

\* Mutation: every INSERT is committed on its own (autocommit).
InsertAutocommit ==
    /\ pc = "insert"
    /\ idx < Len(df.rows)
    /\ IF ~(ParamCols \subseteq df.columns)
       THEN /\ Raise("KeyError")
            /\ UNCHANGED <<idx, count, table>>
       ELSE \E ok \in BOOLEAN :
              IF ok /\ (tableExists \/ txSchema)
              THEN LET res == InsertOnConflictDoNothing(
                                 table, StoredRow(df.rows[idx + 1]))
                   IN  /\ table' = res[1]
                       /\ count' = Counted(count, res[2])
                       /\ idx' = idx + 1
                       /\ UNCHANGED <<pc, session, exc>>
              ELSE /\ Raise("OperationalError")
                   /\ UNCHANGED <<idx, count, table>>
    /\ UNCHANGED <<response, data, history_data, df, tableExists, log, timeout,
                   history>>

\* Lines 90-108, one pass of the loop body.  The row[...] lookups raise
\* KeyError for a column the frame lacks; the statement sees the committed
\* rows and those of its own transaction; the store may fail it.
Insert ==
    /\ pc = "insert"
    /\ idx < Len(df.rows)
    /\ IF ~(ParamCols \subseteq df.columns)
       THEN /\ Raise("KeyError")
            /\ UNCHANGED <<idx, count>>
       ELSE \E ok \in BOOLEAN :
              IF ok /\ (tableExists \/ txSchema)
              THEN LET res == InsertOnConflictDoNothing(
                                 table \cup txRows, StoredRow(df.rows[idx + 1]))
                   IN  IF res[3] # "none"
                       THEN /\ Raise(res[3])
                            /\ UNCHANGED <<idx, count>>
                       ELSE /\ txRows' = res[1] \ table
                            /\ count' = Counted(count, res[2])
                            /\ idx' = idx + 1
                            /\ UNCHANGED <<pc, conn, txSchema, exc>>
              ELSE /\ Raise("OperationalError")
                   /\ UNCHANGED <<idx, count>>
    /\ UNCHANGED <<response, data, history_data, df, store, log, timeout, history>>

\* Lines 110-111 and the end of the with-block: the inserts are committed,
\* the count is logged, the connection is released.
Commit ==
    /\ pc = "insert"
    /\ idx = Len(df.rows)
    /\ \E ok \in BOOLEAN, again \in BOOLEAN :
         IF ok THEN /\ table' = table \cup txRows
                    /\ txRows' = {}
                    /\ conn' = FALSE
                    /\ log' = Append(log, "Successfully inserted new records.")
                    /\ replay' = IF again THEN history_data ELSE <<>>
                    /\ loadedUnion' = FirstArrivals(loadedUnion, history_data)
                    /\ pc' = "returned"
                    /\ UNCHANGED <<txSchema, exc>>
               ELSE /\ Raise("OperationalError")
                    /\ UNCHANGED <<table, log, replay, loadedUnion>>
    /\ UNCHANGED <<response, data, history_data, frame, tableExists, timeout,
                   startTable, repeat, attempts, outage>>

\* Line 120: fetch_history returned.
JobFinished ==
    /\ pc = "returned"
    /\ log' = Append(log, "Job finished successfully.")
    /\ pc' = "endcycle"
    /\ UNCHANGED <<response, data, history_data, frame, session, store, exc, timeout,
                   history>>

\* Mutation: the driver logs the exception and lets it end the loop.
CriticalErrorEndsLoop ==
    /\ pc = "raised"
    /\ log' = Append(log, "Critical loop error")
    /\ pc' = "exit"
    /\ UNCHANGED <<response, data, history_data, frame, session, store, exc,
                   timeout, history>>

\* Mutation: the driver's handler runs the load again at once.
CriticalErrorRetriesLoad ==
    /\ pc = "raised"
    /\ log' = Append(log, "Critical loop error")
    /\ pc' = "connect"
    /\ UNCHANGED <<response, data, history_data, frame, session, store, exc,
                   timeout, history>>

\* Lines 121-122: an exception came out of fetch_history.
CriticalError ==
    /\ pc = "raised"
    /\ log' = Append(log, "Critical loop error")
    /\ outage' = (outage \/ exc = "OperationalError")
    /\ pc' = "endcycle"
    /\ UNCHANGED <<response, data, history_data, frame, session, store, exc, timeout,
                   startTable, replay, repeat, attempts, loadedUnion>>

\* Lines 126-129: the sleep begins.
Sleep ==
    /\ pc = "endcycle"
    /\ timeout' = 3600
    /\ log' = Append(log, "Sleeping")
    /\ pc' = "sleeping"
    /\ UNCHANGED <<response, data, history_data, frame, session, store, exc, history>>

\* Line 129 returns; back to the head of the while loop (line 116).  The
\* locals of the finished call are gone.
Wake ==
    /\ pc = "sleeping"
    /\ pc' = "loop"
    /\ response' = "none"
    /\ data' = <<>>
    /\ history_data' = <<>>
    /\ df' = NoFrame
    /\ idx' = 0
    /\ count' = 0
    /\ exc' = "none"
    /\ log' = <<>>
    /\ repeat' = FALSE
    /\ startTable' = table
    /\ requests' = 0
    /\ loads' = 0
    /\ UNCHANGED <<session, store, timeout, replay, outage, loadedUnion>>

Next ==
    \/ StartCycle
    \/ ExtractFails
    \/ ExtractOk
    \/ Parse
    \/ BuildFrame
    \/ ConvertDates
    \/ Connect
    \/ CreateTable
    \/ CommitSchema
    \/ Coerce
    \/ Insert
    \/ Commit
    \/ JobFinished
    \/ CriticalError
    \/ Sleep
    \/ Wake

Spec == Init /\ [][Next]_vars

\* The process is killed (the only way the loop ends).  The server rolls
\* back the transaction of the lost connection; nothing runs afterwards.
Crash ==
    /\ pc # "crashed"
    /\ pc' = "crashed"
    /\ conn' = FALSE
    /\ txSchema' = FALSE
    /\ txRows' = {}
    /\ UNCHANGED <<response, data, history_data, frame, store, log, exc,
                   timeout, history>>

\* The program together with its termination from outside.
CrashSpec == Init /\ [][Next \/ Crash]_vars

\* The process is sequential and every blocking call is bounded (the request
\* by its timeout, the sleep by its length): it always takes its next step.
FairSpec == Spec /\ WF_vars(Next)

(***************************************************************************)
(* Vocabulary of the properties.                                           *)
(***************************************************************************)
FetchErrorMsg == "Error fetching from Tautulli"
InsertedMsg == "Successfully inserted new records."

\* The cycle ran its insert loop and committed it.
LoadCommitted == pc = "returned" /\ Logged(InsertedMsg)

Keys(rows) == {r["reference_id"] : r \in rows}

HasField(rec, k) == k \in DOMAIN rec

\* Raw records whose key is present and converts to an integer.
ValidIndices(hd) ==
    {i \in 1..Len(hd) : /\ HasField(hd[i], "reference_id")
                        /\ IntCoercible(hd[i]["reference_id"])}

ValidKeys(hd) == {ToInt(hd[i]["reference_id"]) : i \in ValidIndices(hd)}

\* Raw records whose key is present, not null and no integer ("abc").
BadIndices(hd) ==
    {i \in 1..Len(hd) : /\ HasField(hd[i], "reference_id")
                        /\ ~isna(hd[i]["reference_id"])
                        /\ ~IntCoercible(hd[i]["reference_id"])}

SomeHas(hd, k) == \E i \in 1..Len(hd) : HasField(hd[i], k)

OptionalFields == {"friendly_name", "full_title", "media_type", "duration",
                   "ip_address", "platform"}

(***************************************************************************)
(* C1.  Idempotence of the load: when a cycle loads the batch that the     *)
(* previous committed load loaded, the table after it is the table before  *)
(* it (the table the first pass left) and the count it reports is 0.       *)
(***************************************************************************)
C1_SecondPassChangesNothing ==
    (LoadCommitted /\ repeat) => (count = 0 /\ table = startTable)

C1_Witness ==
    /\ LoadCommitted
    /\ repeat
    /\ Len(df.rows) >= 2
    /\ Cardinality(table) >= 2

(***************************************************************************)
(* C2.  No exception ever leaves fetch_history.                            *)
(***************************************************************************)
C2_NothingEscapesFetchHistory == pc # "raised" /\ exc = "none"

(***************************************************************************)
(* C3.  The driver never stops: whatever the cycle's outcome, the end of   *)
(* the loop body is followed by the sleep of 3600 seconds and by nothing   *)
(* else, the sleep by the next pass of the loop and the next call of       *)
(* fetch_history, and both keep happening for ever.                        *)
(***************************************************************************)
C3_DriverNeverStops ==
    /\ [][/\ pc = "endcycle" => (pc' = "sleeping" /\ timeout' = 3600)
          /\ pc' = "sleeping" => pc = "endcycle"
          /\ pc = "sleeping" => pc' = "loop"
          /\ pc' = "loop" => pc = "sleeping"
          /\ pc = "loop" => pc' = "extract"
          /\ pc' = "extract" => pc = "loop"
          /\ pc \in {"returned", "raised"} => pc' = "endcycle"]_vars
    /\ []<>(pc = "sleeping")
    /\ []<>(pc = "extract")

C3_Witness ==
    /\ pc = "sleeping"
    /\ exc # "none"
    /\ timeout = 3600
    /\ table # {}

(***************************************************************************)
(* C4.  The count a cycle reports is the number of rows the cycle added:   *)
(* rows after minus rows before, which is the number of distinct keys of   *)
(* the batch that the table did not hold before.                           *)
(***************************************************************************)
C4_CountIsRowsAdded ==
    LoadCommitted =>
        /\ count = Cardinality(table) - Cardinality(startTable)
        /\ count = Cardinality(ValidKeys(history_data) \ Keys(startTable))

\* Three records, two new keys and one the table already holds: count 2.
C4_Witness ==
    /\ LoadCommitted
    /\ Len(history_data) = 3
    /\ Cardinality(ValidKeys(history_data)) = 3
    /\ Cardinality(ValidKeys(history_data) \cap Keys(startTable)) = 1
    /\ count = 2

(***************************************************************************)
(* C5.  Rows are write-once: no step removes a row of plex_history or      *)
(* changes one, and none adds a second row for a key the table holds.      *)
(***************************************************************************)
C5_RowsAreWriteOnce ==
    [][/\ table \subseteq table'
       /\ \A r \in table' : r["reference_id"] \in Keys(table) => r \in table]_vars

\* A committed load whose batch had a stored key with other field values.
C5_Witness ==
    /\ LoadCommitted
    /\ \E i \in 1..Len(df.rows) :
         /\ df.rows[i]["reference_id"] \in Keys(startTable)
         /\ StoredRow(df.rows[i]) \notin table

(***************************************************************************)
(* C6.  A record whose key is no integer is dropped on its own: the cycle  *)
(* does not fail on it, and when nothing else fails exactly the valid      *)
(* records of the batch are inserted.                                      *)
(***************************************************************************)
C6_BadKeyIsDroppedAlone ==
    (pc = "endcycle" /\ response = "ok" /\ BadIndices(history_data) # {}
        /\ exc \notin {"KeyError", "OperationalError"})
    => /\ exc = "none"
       /\ Logged(InsertedMsg)
       /\ Keys(table) = Keys(startTable) \cup ValidKeys(history_data)

(***************************************************************************)
(* C7.  A batch in which no record carries some optional field is still    *)
(* normalized and loaded: unless the store fails, the cycle does not fail  *)
(* and every record with a valid key is in the table.                      *)
(***************************************************************************)
C7_AbsentOptionalFieldTolerated ==
    (/\ pc = "endcycle"
     /\ history_data # <<>>
     /\ \E k \in OptionalFields : ~SomeHas(history_data, k)
     /\ SomeHas(history_data, "date")
     /\ SomeHas(history_data, "reference_id")
     /\ BadIndices(history_data) = {}
     /\ exc # "OperationalError")
    => /\ exc = "none"
       /\ ValidKeys(history_data) \subseteq Keys(table)

(***************************************************************************)
(* C8.  Key filtering, in the case of a batch none of whose records has    *)
(* the reference_id field: nothing is inserted and the cycle does not      *)
(* fail.                                                                   *)
(***************************************************************************)
C8_BatchWithoutKeysIsNoFailure ==
    (/\ pc = "endcycle"
     /\ history_data # <<>>
     /\ ~SomeHas(history_data, "reference_id")
     /\ SomeHas(history_data, "date")
     /\ exc # "OperationalError")
    => /\ exc = "none"
       /\ table = startTable

(***************************************************************************)
(* C9.  A failed request ends the cycle before any load: the failure is    *)
(* logged, nothing is normalized, no connection is opened, no statement    *)
(* runs, the table is unchanged, no exception leaves fetch_history, and    *)
(* the driver is on its way to the sleep.                                  *)
(***************************************************************************)
C9_FailedRequestEndsCycle ==
    response \in FetchErrors =>
        /\ Logged(FetchErrorMsg)
        /\ pc \in {"returned", "endcycle", "sleeping"}
        /\ history_data = <<>> /\ df = NoFrame
        /\ ~conn /\ ~txSchema /\ txRows = {}
        /\ store = <<tableExists, startTable>>
        /\ exc = "none"

C9_Witness ==
    /\ response = "Timeout"
    /\ pc = "sleeping"
    /\ table # {}

(***************************************************************************)
(* C10.  A 2xx JSON body without the response -> data -> data nesting is   *)
(* handled as a fetch failure: logged as one, and no exception leaves      *)
(* fetch_history.                                                          *)
(***************************************************************************)
C10_MalformedBodyIsFetchFailure ==
    (response = "ok" /\ ~WellNested(data) /\ pc # "parse")
    => (Logged(FetchErrorMsg) /\ exc = "none")

(***************************************************************************)
(* C11.  An empty fetch is a clean no-op cycle: once the fetched list is   *)
(* found empty the cycle logs it and returns, no exception is raised, no   *)
(* frame is built, no connection is opened, no statement runs and the      *)
(* store stays as it was.                                                  *)
(***************************************************************************)
EmptyFetch ==
    /\ response = "ok"
    /\ WellNested(data)
    /\ data["response"]["data"]["data"] = <<>>
    /\ pc # "parse"

C11_EmptyFetchIsNoOp ==
    EmptyFetch =>
        /\ Logged("No data found.")
        /\ pc \in {"returned", "endcycle", "sleeping"}
        /\ exc = "none"
        /\ df = NoFrame
        /\ loads = 0
        /\ ~conn /\ ~txSchema /\ txRows = {}
        /\ table = startTable

C11_Witness ==
    /\ EmptyFetch
    /\ pc = "sleeping"
    /\ tableExists
    /\ table # {}

(***************************************************************************)
(* C12.  Commit ordering and visibility: the insert loop runs only with    *)
(* the CREATE TABLE committed; every row of plex_history has all eight     *)
(* columns; the only step that changes the visible rows is the final       *)
(* commit, which adds the rows of its transaction; a failure or a kill of  *)
(* the process leaves the visible rows as they were and nothing pending.   *)
(***************************************************************************)
C12_OnlyCommittedRowsVisible ==
    [][/\ pc' = "insert" => (tableExists' /\ ~txSchema')
       /\ \A r \in table' : DOMAIN r = ParamCols
       /\ table' # table => /\ pc = "insert" /\ idx = Len(df.rows)
                            /\ pc' = "returned"
                            /\ table' = table \cup txRows
       /\ pc' \in {"raised", "crashed"} =>
              (table' = table /\ txRows' = {} /\ ~txSchema')]_vars

\* Killed between two inserts of a batch, one row pending: it is not visible.
C12_Witness ==
    /\ pc = "crashed"
    /\ idx >= 1 /\ idx < Len(df.rows)
    /\ count >= 1
    /\ startTable # {}
    /\ table = startTable

(***************************************************************************)
(* C13.  No retry inside a cycle: a cycle issues at most one request and   *)
(* opens at most one connection; after a database error the cycle is on    *)
(* its way to the sleep with the connection released, and the counts start *)
(* again only when the sleep of 3600 seconds is over.                      *)
(***************************************************************************)
C13_NoRetryInsideCycle ==
    [][/\ requests' <= 1
       /\ loads' <= 1
       /\ exc' = "OperationalError" =>
              /\ loads' = 1
              /\ pc' \in {"raised", "endcycle", "sleeping"}
              /\ ~conn' /\ txRows' = {}
       /\ (requests' < requests \/ loads' < loads) =>
              (pc = "sleeping" /\ timeout = 3600)]_vars

\* A write failed after a row was inserted; the driver now sleeps.
C13_Witness ==
    /\ pc = "sleeping"
    /\ exc = "OperationalError"
    /\ idx >= 1
    /\ requests = 1 /\ loads = 1

(***************************************************************************)
(* C14.  A store outage does not poison later cycles: after a cycle that   *)
(* ended in a database error, a cycle whose request succeeds and whose     *)
(* database calls all succeed ends with the connection released and every  *)
(* valid record of its batch in the table.                                 *)
(***************************************************************************)
C14_WorkingCycleAfterOutageLoads ==
    (/\ outage
     /\ pc = "endcycle"
     /\ response = "ok" /\ WellNested(data) /\ history_data # <<>>
     /\ exc # "OperationalError")
    => /\ ~conn /\ txRows = {}
       /\ ValidKeys(history_data) \subseteq Keys(table)

(***************************************************************************)
(* C15.  Primary-key uniqueness: committed and pending rows together hold  *)
(* at most one row per reference_id, and no insert fails on a duplicate    *)
(* key.                                                                    *)
(***************************************************************************)
C15_OneRowPerKey ==
    /\ \A r1, r2 \in table \cup txRows :
           r1["reference_id"] = r2["reference_id"] => r1 = r2
    /\ exc # "IntegrityError"

\* A committed load whose batch repeats a key and overlaps the stored rows.
C15_Witness ==
    /\ LoadCommitted
    /\ \E i, j \in 1..Len(df.rows) :
           i < j /\ df.rows[i]["reference_id"] = df.rows[j]["reference_id"]
    /\ \E i \in 1..Len(df.rows) : df.rows[i]["reference_id"] \in Keys(startTable)

(***************************************************************************)
(* C16.  Timestamp conversion: once the frame is converted it has no date  *)
(* column, and the watched_at of every record with an integer date is the  *)
(* calendar time of that instant: reading the calendar fields back as      *)
(* epoch seconds gives the date, and 1700000000 is 2023-11-14 22:13:20.    *)
(***************************************************************************)
\* Epoch seconds of the calendar fields <<y, m, d, h, min, s>> (UTC).
EpochOf(c) ==
    LET y   == IF c[2] <= 2 THEN c[1] - 1 ELSE c[1]
        era == y \div 400
        yoe == y - era * 400
        mp  == IF c[2] > 2 THEN c[2] - 3 ELSE c[2] + 9
        doy == (153 * mp + 2) \div 5 + c[3] - 1
        doe == yoe * 365 + yoe \div 4 - yoe \div 100 + doy
    IN  (era * 146097 + doe - 719468) * 86400 + c[4] * 3600 + c[5] * 60 + c[6]

Converted == pc \in {"connect", "create", "commit_schema", "coerce"}

C16_WatchedAtIsTheSameInstant ==
    Converted =>
        /\ "date" \notin df.columns
        /\ "watched_at" \in df.columns
        /\ Len(df.rows) = Len(history_data)
        /\ \A i \in 1..Len(history_data) :
             (HasField(history_data[i], "date") /\ history_data[i]["date"].t = "int")
             => LET w == df.rows[i]["watched_at"]
                    secs == history_data[i]["date"].n
                IN  /\ w.t = "ts"
                    /\ Len(w.c) = 6
                    /\ EpochOf(w.c) = secs
                    /\ secs = 1700000000 => w.c = <<2023, 11, 14, 22, 13, 20>>

C16_Witness ==
    /\ Converted
    /\ \E i, j \in 1..Len(history_data) :
         /\ HasField(history_data[i], "date")
         /\ history_data[i]["date"].n = 1700000000
         /\ df.rows[i]["watched_at"].c = <<2023, 11, 14, 22, 13, 20>>
         /\ HasField(history_data[j], "date")
         /\ df.rows[j]["watched_at"].c = <<2000, 2, 29, 0, 0, 0>>

(***************************************************************************)
(* C17.  The inserts of a cycle are all-or-nothing: in every state, also   *)
(* after a failed insert, a failed commit or a kill of the process, the    *)
(* table is what it was when the cycle began, or that plus a row for every *)
(* valid key of the batch.                                                 *)
(***************************************************************************)
C17_AllOrNothing ==
    /\ startTable \subseteq table
    /\ \/ table = startTable
       \/ Keys(table) = Keys(startTable) \cup ValidKeys(history_data)

\* An insert failed after an earlier row of the batch was inserted.
C17_Witness ==
    /\ pc = "raised"
    /\ exc = "OperationalError"
    /\ count >= 1
    /\ idx >= 1 /\ idx < Len(df.rows)
    /\ table = startTable

(***************************************************************************)
(* C18.  The table is exactly the union of the committed loads: its rows   *)
(* are the normalized records of the batches that reached the final        *)
(* commit, each key with the values of its first arrival; every other      *)
(* cycle contributes nothing.                                              *)
(***************************************************************************)
C18_TableIsUnionOfLoads == table = loadedUnion

\* Two committed loads and a failed cycle behind a table of three rows.
C18_Witness ==
    /\ LoadCommitted
    /\ outage
    /\ startTable # {}
    /\ table # startTable
    /\ Cardinality(table) = 3

(***************************************************************************)
(* C19.  Outcome logging is consistent: "Job finished successfully." is    *)
(* never logged in a cycle that logged an error.                           *)
(***************************************************************************)
C19_SuccessOnlyWithoutError ==
    Logged("Job finished successfully.") =>
        (~Logged(FetchErrorMsg) /\ ~Logged("Critical loop error"))

====
